---- MODULE Spec2Model ----
(***************************************************************************)
(* Model of fastMISTgen (src/minesweeper_OLD/fastMISTmod.py): the grid     *)
(* index built at construction (make_lib, addagewgt, lib_as_grid) and the  *)
(* interpolation query getMIST (weights, params_to_grid, knearest_inds,    *)
(* linear_weights).                                                        *)
(*                                                                         *)
(* Numbers.  Label values and queries are integers in fixed units:         *)
(*   EEP in units of 50, initial_mass in units of 0.1, initial_[Fe/H] in   *)
(*   units of 0.25, so EEP {100,200,300} is {2,4,6}, mass {0.8,1.0,1.2}    *)
(*   is {8,10,12}, [Fe/H] {-0.5,0.0} is {-2,0} and the query               *)
(*   (150, 0.9, -0.25) is (3, 9, -1).                                      *)
(* The log(Age) column is held in units of log10(2), so that 10**aa is     *)
(* Pow10(k) = 2^k exactly (ages 1,2,4 are k = 0,1,2).                      *)
(* Every derived real number is an exact rational <<num, den>>; a          *)
(* denominator of 0 stands for the IEEE result of a division by zero       *)
(* (nan for 0/0, inf otherwise).  Rounding of float arithmetic is not      *)
(* modelled, with one exception: whether a vertex at distance exactly      *)
(* sqrt(ndim) is inside the ball of the radius query depends on the        *)
(* rounding of np.sqrt(ndim) and of the distance, and is left open.        *)
(* Row indices are 1-based here (0-based in the code); pixel coordinates   *)
(* keep the code's 0-based values.                                         *)
(***************************************************************************)
EXTENDS Integers, Sequences, FiniteSets, TLC

VARIABLES
    misth5,       \* the rows of the model file: label values and raw columns
    ageweight,    \* kwargs 'ageweight'
    pc,           \* "new" before __init__, "ready" after it, "failed" if it raised
    predictions,  \* self.predictions
    libparams,    \* self.libparams : rows of label values
    output,       \* self.output    : rows of output values (after .T)
    gridpoints,   \* self.gridpoints
    binwidths,    \* self.binwidths
    X,            \* self.X : integer pixel coordinates of the rows
    call,         \* the last getMIST call: its query, intermediates and return
    prev          \* a remembered earlier call <<query, return>>

vars == <<misth5, ageweight, pc, predictions, libparams, output, gridpoints,
          binwidths, X, call, prev>>

index == <<predictions, libparams, output, gridpoints, binwidths, X>>

-----------------------------------------------------------------------------
(* Bounds and input domains *)

\* at most this many rows of the full rectilinear grid are absent from the file
MaxHoles == 2

EEPAxes  == { {2, 4, 6}, {2, 6}, {4} }
MassAxes == { {8, 10, 12}, {8, 9, 12}, {10} }
FehAxes  == { {-2, 0}, {0} }

\* at most this many rows of the file are stored a second time
MaxDups == 1

\* rows that may be stored twice
DupSites == {<<2, 8, -2>>, <<4, 10, 0>>}

\* rows that may be absent: corners of the cube around (3, 9, -1)
HoleSites == ({2, 4} \X {8, 10} \X {-2}) \cup {<<4, 10, 0>>}

\* queries reach one unit beyond every axis
EEPQueries  == 1..7
MassQueries == 7..13
FehQueries  == -3..1

-----------------------------------------------------------------------------
(* Arithmetic helpers *)

Abs(n) == IF n < 0 THEN -n ELSE n

SetMin(S) == CHOOSE m \in S : \A n \in S : m <= n

RECURSIVE GCD(_, _)
GCD(a, b) == IF b = 0 THEN a ELSE GCD(b, a % b)

RECURSIVE SumSeq(_)
SumSeq(s) == IF s = <<>> THEN 0 ELSE Head(s) + SumSeq(Tail(s))

RECURSIVE ProdSeq(_)
ProdSeq(s) == IF s = <<>> THEN 1 ELSE Head(s) * ProdSeq(Tail(s))

\* np.sort / np.unique of a set of integers: ascending sequence
RECURSIVE SortedSeq(_)
SortedSeq(S) ==
    IF S = {} THEN <<>>
    ELSE LET m == SetMin(S) IN <<m>> \o SortedSeq(S \ {m})

\* the subsequence of s at the positions of the (ascending) index sequence idx
Take(s, idx) == [k \in 1..Len(idx) |-> s[idx[k]]]

\* exact rationals <<num, den>>, den > 0, in lowest terms; den = 0 is nan/inf
Rat(n, d) ==
    IF d = 0 THEN <<IF n > 0 THEN 1 ELSE IF n < 0 THEN -1 ELSE 0, 0>>
    ELSE LET g == GCD(Abs(n), Abs(d))
             s == IF d < 0 THEN -1 ELSE 1
         IN  <<s * (n \div g), s * (d \div g)>>

IsFinite(a) == a[2] # 0

RAdd(a, b) ==
    IF a[2] = 0 \/ b[2] = 0
    THEN (IF a[2] = 0 /\ b[2] = 0 /\ a[1] = b[1] THEN a
          ELSE IF a[2] = 0 /\ b[2] # 0 THEN a
          ELSE IF b[2] = 0 /\ a[2] # 0 THEN b
          ELSE <<0, 0>>)
    ELSE Rat(a[1] * b[2] + b[1] * a[2], a[2] * b[2])

RMul(a, b) ==
    IF a[2] = 0 \/ b[2] = 0
    THEN <<(IF a[1] > 0 THEN 1 ELSE IF a[1] < 0 THEN -1 ELSE 0)
           * (IF b[1] > 0 THEN 1 ELSE IF b[1] < 0 THEN -1 ELSE 0), 0>>
    ELSE Rat(a[1] * b[1], a[2] * b[2])

\* a <= b on finite rationals
RLe(a, b) == a[1] * b[2] <= b[1] * a[2]

RECURSIVE RSum(_)
RSum(s) == IF s = <<>> THEN <<0, 1>> ELSE RAdd(Head(s), RSum(Tail(s)))

\* 10.0**aa for a log-age of aa units of log10(2)
RECURSIVE Pow10(_)
Pow10(aa) == IF aa = 0 THEN 1 ELSE 2 * Pow10(aa - 1)

-----------------------------------------------------------------------------
(* numpy primitives *)

\* np.digitize([x], bins, right) for increasing bins
digitize(x, bins, right) ==
    Cardinality({i \in 1..Len(bins) : IF right THEN bins[i] < x ELSE bins[i] <= x})

\* np.diff
diff(s) == [i \in 1..(Len(s) - 1) |-> s[i + 1] - s[i]]

\* Python indexing s[i] with 0-based i, negative i counting from the end
IndexOK(s, i) == -Len(s) <= i /\ i < Len(s)

PyGet(s, i) == IF i >= 0 THEN s[i + 1] ELSE s[Len(s) + i + 1]

\* np.gradient with forward differences in place of the central ones
gradient2_forward(f) ==
    [i \in 1..Len(f) |->
        IF i = Len(f) THEN 2 * (f[Len(f)] - f[Len(f) - 1])
        ELSE 2 * (f[i + 1] - f[i])]

\* np.gradient of a 1-D array, unit spacing, times 2 (so that it stays integral):
\* one-sided differences at the ends, central differences inside
gradient2(f) ==
    [i \in 1..Len(f) |->
        IF i = 1 THEN 2 * (f[2] - f[1])
        ELSE IF i = Len(f) THEN 2 * (f[Len(f)] - f[Len(f) - 1])
        ELSE f[i + 1] - f[i - 1]]

-----------------------------------------------------------------------------
(* The model file and construction *)

\* self.labels (kwargs default), in order
labels == <<"EEP", "initial_mass", "initial_[Fe/H]">>

\* self.ndim
ndim == Len(labels)

\* self._strictness
strictness == 0

\* the default predictions list, cut to two of its columns
DefaultPredictions == <<"log(Age)", "Mass">>

\* MISTrename: prediction name -> column name of the file
MISTrename(x) ==
    CASE x = "log(Age)" -> "log_age"
      [] x = "Mass"     -> "star_mass"
      [] OTHER          -> x

\* one row of the file for the track point (e, m, f): age grows along a track
\* (with EEP), is shorter for heavier stars, and the star loses mass with EEP
FileRow(e, m, f) ==
    [EEP |-> e, initial_mass |-> m, feh |-> f,
     log_age |-> (e \div 2 - 1) + (12 - m) \div 2 + (f + 2) \div 2,
     star_mass |-> 10 * m - e]

\* the rows of a file holding the track points pts, track after track
\* (by [Fe/H], then mass), each track in order of EEP
FileRows(pts) ==
    LET Key(t) == (t[3] + 3) * 10000 + t[2] * 100 + t[1]
        keys == SortedSeq({Key(t) : t \in pts})
        At(k) == CHOOSE t \in pts : Key(t) = k
    IN  [i \in 1..Len(keys) |-> FileRow(At(keys[i])[1], At(keys[i])[2], At(keys[i])[3])]

\* misth5[z][label] for one row
LabelOf(row, p) ==
    CASE p = "EEP"            -> row.EEP
      [] p = "initial_mass"   -> row.initial_mass
      [] p = "initial_[Fe/H]" -> row.feh

\* misth5[z][column] for one row
ColumnOf(row, c) ==
    CASE c = "log_age"   -> row.log_age
      [] c = "star_mass" -> row.star_mass

\* np.unique(self.libparams[p])
unique(lib, p) == SortedSeq({lib[i][p] : i \in 1..Len(lib)})

\* addagewgt: the rows of the (mass m, [Fe/H] z) group, in file order
GroupInds(lib, m, z) ==
    SortedSeq({i \in 1..Len(lib) :
                  lib[i]["initial_mass"] = m /\ lib[i]["initial_[Fe/H]"] = z})

\* age_wgtarr[inds] = grad / np.sum(grad) for one group with rows inds,
\* as a sequence parallel to inds
GroupAgewgt(agecol, inds) ==
    LET aa   == Take(agecol, inds)
        grad == gradient2([k \in 1..Len(aa) |-> Pow10(aa[k])])
    IN  [k \in 1..Len(inds) |-> Rat(grad[k], SumSeq(grad))]

\* addagewgt: [raised, col]; np.gradient raises ValueError on a group of fewer
\* than two rows, and the loop visits every (z, m) pair of unique values
addagewgt(lib, cols, preds) ==
    LET age_ind == CHOOSE c \in 1..Len(preds) : preds[c] = "log(Age)"
        agecol  == [i \in 1..Len(lib) |-> cols[age_ind][i][1]]
        zs == {lib[i]["initial_[Fe/H]"] : i \in 1..Len(lib)}
        ms == {lib[i]["initial_mass"] : i \in 1..Len(lib)}
        small == \E z \in zs, m \in ms : Len(GroupInds(lib, m, z)) < 2
        Wgt(i) ==
            LET inds == GroupInds(lib, lib[i]["initial_mass"], lib[i]["initial_[Fe/H]"])
                k == CHOOSE j \in 1..Len(inds) : inds[j] = i
            IN  GroupAgewgt(agecol, inds)[k]
    IN  IF small THEN [raised |-> TRUE, col |-> <<>>]
        ELSE [raised |-> FALSE, col |-> [i \in 1..Len(lib) |-> Wgt(i)]]

\* make_lib: [raised, libparams, output, predictions]
make_lib(file, agewt) ==
    LET lib  == [i \in 1..Len(file) |->
                    [p \in {labels[a] : a \in 1..ndim} |-> LabelOf(file[i], p)]]
        cols == [c \in 1..Len(DefaultPredictions) |->
                    [i \in 1..Len(file) |->
                        <<ColumnOf(file[i], MISTrename(DefaultPredictions[c])), 1>>]]
        aw   == addagewgt(lib, cols, DefaultPredictions)
        all  == IF agewt THEN Append(cols, aw.col) ELSE cols
        prd  == IF agewt THEN Append(DefaultPredictions, "Agewgt") ELSE DefaultPredictions
    IN  IF agewt /\ aw.raised
        THEN [raised |-> TRUE, libparams |-> <<>>, output |-> <<>>, predictions |-> <<>>]
        ELSE [raised |-> FALSE, libparams |-> lib,
              output |-> [i \in 1..Len(file) |-> [c \in 1..Len(all) |-> all[c][i]]],
              predictions |-> prd]

\* lib_as_grid digitizing the rows with right=False: every pixel is one too high
lib_as_grid_left(lib) ==
    LET gp == [p \in {labels[a] : a \in 1..ndim} |-> unique(lib, p)]
    IN  [gridpoints |-> gp,
         binwidths  |-> [p \in DOMAIN gp |-> diff(gp[p])],
         X |-> [i \in 1..Len(lib) |->
                  [a \in 1..ndim |-> digitize(lib[i][labels[a]], gp[labels[a]], FALSE)]]]

\* lib_as_grid: [gridpoints, binwidths, X]
lib_as_grid(lib) ==
    LET gp == [p \in {labels[a] : a \in 1..ndim} |-> unique(lib, p)]
    IN  [gridpoints |-> gp,
         binwidths  |-> [p \in DOMAIN gp |-> diff(gp[p])],
         X |-> [i \in 1..Len(lib) |->
                  [a \in 1..ndim |-> digitize(lib[i][labels[a]], gp[labels[a]], TRUE)]]]

NoCall == [q |-> <<>>, exc |-> "", msg |-> "", escaped |-> FALSE, xtarg |-> <<>>,
           nbrs |-> <<>>, wraw |-> <<>>, inds |-> <<>>, wghts |-> <<>>, ret |-> <<>>]

NoPrev == [q |-> <<>>, ret |-> <<>>, between |-> FALSE]

Init ==
    /\ \E es \in EEPAxes, ms \in MassAxes, fs \in FehAxes :
         \E holes \in SUBSET HoleSites :
            /\ Cardinality(holes) <= MaxHoles
            /\ (es \X ms \X fs) \ holes # {}
            /\ misth5 = FileRows((es \X ms \X fs) \ holes)
    /\ ageweight \in BOOLEAN
    /\ pc = "new"
    /\ predictions = DefaultPredictions
    /\ libparams = <<>>
    /\ output = <<>>
    /\ gridpoints = <<>>
    /\ binwidths = <<>>
    /\ X = <<>>
    /\ call = NoCall
    /\ prev = NoPrev

\* __init__: make_lib, then lib_as_grid; an exception leaves no object
Construct ==
    /\ pc = "new"
    /\ LET lib == make_lib(misth5, ageweight) IN
         IF lib.raised
         THEN /\ pc' = "failed"
              /\ UNCHANGED index
         ELSE LET g == lib_as_grid(lib.libparams) IN
              /\ pc' = "ready"
              /\ predictions' = lib.predictions
              /\ libparams' = lib.libparams
              /\ output' = lib.output
              /\ gridpoints' = g.gridpoints
              /\ binwidths' = g.binwidths
              /\ X' = g.X
    /\ UNCHANGED <<misth5, ageweight, call, prev>>

-----------------------------------------------------------------------------
(* Queries *)

\* params_to_grid without its except clause: the IndexError is not re-raised
\* as ValueError
params_to_grid_IndexError(targ) ==
    LET inds == [a \in 1..ndim |->
                    digitize(targ[labels[a]], gridpoints[labels[a]], FALSE) - 1]
        IndexError == \E a \in 1..ndim :
                         \/ ~IndexOK(gridpoints[labels[a]], inds[a])
                         \/ ~IndexOK(binwidths[labels[a]], inds[a])
    IN  IF IndexError
        THEN [exc |-> "IndexError", msg |-> "", x |-> <<>>]
        ELSE [exc |-> "", msg |-> "",
              x |-> [a \in 1..ndim |->
                       <<inds[a] * PyGet(binwidths[labels[a]], inds[a])
                           + (targ[labels[a]] - PyGet(gridpoints[labels[a]], inds[a])),
                         PyGet(binwidths[labels[a]], inds[a])>>]]

\* params_to_grid: [exc, x]; x[a] = <<num, den>> is the fractional pixel
\* coordinate inds + (targ - gridpoints[inds]) / binwidths[inds] on axis a.
\* An index outside gridpoints or binwidths raises IndexError, which is
\* re-raised as ValueError("At least one parameter outside grid.")
params_to_grid(targ) ==
    LET inds == [a \in 1..ndim |->
                    digitize(targ[labels[a]], gridpoints[labels[a]], FALSE) - 1]
        IndexError == \E a \in 1..ndim :
                         \/ ~IndexOK(gridpoints[labels[a]], inds[a])
                         \/ ~IndexOK(binwidths[labels[a]], inds[a])
    IN  IF IndexError
        THEN [exc |-> "ValueError", msg |-> "At least one parameter outside grid.",
              x |-> <<>>]
        ELSE [exc |-> "", msg |-> "",
              x |-> [a \in 1..ndim |->
                       <<inds[a] * PyGet(binwidths[labels[a]], inds[a])
                           + (targ[labels[a]] - PyGet(gridpoints[labels[a]], inds[a])),
                         PyGet(binwidths[labels[a]], inds[a])>>]]

\* xtarg - self.X[i] on axis a, as a numerator over the denominator xtarg[a][2]
dxnum(xtarg, i, a) == xtarg[a][1] - X[i][a] * xtarg[a][2]

\* the product of the denominators of xtarg
Denom(xtarg) == ProdSeq([a \in 1..ndim |-> xtarg[a][2]])

\* squared Euclidean distance from xtarg to row i, times Denom(xtarg)^2
dist2(xtarg, i) ==
    SumSeq([a \in 1..ndim |->
              (dxnum(xtarg, i, a) * (Denom(xtarg) \div xtarg[a][2]))
            * (dxnum(xtarg, i, a) * (Denom(xtarg) \div xtarg[a][2]))])

\* rows strictly inside the ball of radius sqrt(ndim) around xtarg
Inside(xtarg) ==
    {i \in 1..Len(X) : dist2(xtarg, i) < ndim * Denom(xtarg) * Denom(xtarg)}

\* rows at distance exactly sqrt(ndim).  query_ball_point compares squared
\* distances with the square of the float np.sqrt(ndim), which for ndim = 3 is
\* 2.9999999999999996 < 3, and the squared distance is itself rounded: whether
\* such a row is returned rests on rounding
OnSphere(xtarg) ==
    {i \in 1..Len(X) : dist2(xtarg, i) = ndim * Denom(xtarg) * Denom(xtarg)}

\* knearest_inds with a search radius of 1 in place of sqrt(ndim)
knearest_inds_radius1(xtarg, edge) ==
    SortedSeq({i \in 1..Len(X) : dist2(xtarg, i) <= Denom(xtarg) * Denom(xtarg)})

\* knearest_inds: np.sort of the result of query_ball_point(xtarg, sqrt(ndim));
\* edge is the set of rows on the sphere that the float comparison lets in
knearest_inds(xtarg, edge) == SortedSeq(Inside(xtarg) \cup (OnSphere(xtarg) \cap edge))

\* axis_weight without the line that zeroes vertices more than a pixel away
axis_weight_nomask(dxn, den) ==
    RAdd(RMul(Rat(den - dxn, den), <<IF dxn >= 0 THEN 1 ELSE 0, 1>>),
         RMul(Rat(den + dxn, den), <<IF dxn < 0 THEN 1 ELSE 0, 1>>))

\* the weight of one axis for displacement dxn / den:
\* ((1 - dx) * (dx >= 0) + (1 + dx) * (dx < 0)) * ((dx > -1) * (dx < 1))
axis_weight(dxn, den) ==
    RMul(RAdd(RMul(Rat(den - dxn, den), <<IF dxn >= 0 THEN 1 ELSE 0, 1>>),
              RMul(Rat(den + dxn, den), <<IF dxn < 0 THEN 1 ELSE 0, 1>>)),
         <<(IF dxn > -den THEN 1 ELSE 0) * (IF dxn < den THEN 1 ELSE 0), 1>>)

RECURSIVE RProd(_)
RProd(s) == IF s = <<>> THEN <<1, 1>> ELSE RMul(Head(s), RProd(Tail(s)))

\* linear_weights: wght.prod(axis=-1), one weight per neighbour
linear_weights(knearest, xtarg) ==
    [k \in 1..Len(knearest) |->
        RProd([a \in 1..ndim |-> axis_weight(dxnum(xtarg, knearest[k], a), xtarg[a][2])])]

\* good = wghts >= 0
good_ge(w) == w[1] >= 0

\* the renormalization left out
renormalize_skip(w, total) == w

\* good = wghts > 0, for one weight
good(w) == w[1] > 0

\* wghts /= wghts.sum(), for one weight
renormalize(w, total) == Rat(w[1] * total[2], w[2] * total[1])

\* weights: [exc, msg, xtarg, nbrs, wraw, inds, wghts]
weights(mass, eep, feh, edge) ==
    LET params == [p \in {labels[a] : a \in 1..ndim} |->
                     CASE p = "EEP"            -> eep
                       [] p = "initial_[Fe/H]" -> feh
                       [] p = "initial_mass"   -> mass]
        g     == params_to_grid(params)
        nbrs  == knearest_inds(g.x, edge)
        wraw  == linear_weights(nbrs, g.x)
        keep  == SortedSeq({k \in 1..Len(nbrs) : good(wraw[k])})
        wkept == Take(wraw, keep)
        none  == [exc |-> "", msg |-> "", xtarg |-> <<>>, nbrs |-> <<>>, wraw |-> <<>>,
                  inds |-> <<>>, wghts |-> <<>>]
    IN  IF g.exc # ""
        THEN [none EXCEPT !.exc = g.exc, !.msg = g.msg]
        ELSE IF Len(nbrs) = 0
        THEN [none EXCEPT !.exc = "ValueError", !.xtarg = g.x]
        ELSE IF RLe(RSum(wraw), <<strictness, 1>>)
        THEN [none EXCEPT !.exc = "ValueError",
                          !.msg = "Something is wrong with the weights",
                          !.xtarg = g.x, !.nbrs = nbrs, !.wraw = wraw]
        ELSE [none EXCEPT !.xtarg = g.x, !.nbrs = nbrs, !.wraw = wraw,
                          !.inds = Take(nbrs, keep),
                          !.wghts = [k \in 1..Len(keep) |->
                                       renormalize(wkept[k], RSum(wkept))]]

\* np.dot(wghts, self.output[inds, :])
dot(wghts, inds) ==
    [c \in 1..Len(predictions) |->
        RSum([k \in 1..Len(inds) |-> RMul(wghts[k], output[inds[k]][c])])]

None == <<>>

\* getMIST: the record of the call; ret is None when weights raised ValueError,
\* any other exception would escape to the caller
getMIST(mass, eep, feh, edge) ==
    LET w == weights(mass, eep, feh, edge)
    IN  [q |-> [mass |-> mass, eep |-> eep, feh |-> feh],
         exc |-> w.exc, msg |-> w.msg,
         escaped |-> w.exc \notin {"", "ValueError"},
         xtarg |-> w.xtarg, nbrs |-> w.nbrs, wraw |-> w.wraw,
         inds |-> w.inds, wghts |-> w.wghts,
         ret |-> IF w.exc = "" THEN <<eep, mass, feh>> \o dot(w.wghts, w.inds)
                 ELSE None]

Queries == [mass : MassQueries, eep : EEPQueries, feh : FehQueries]

\* the rows whose membership in the radius query of q rests on rounding
EdgeRows(q) ==
    LET g == params_to_grid([p \in {labels[a] : a \in 1..ndim} |->
                               CASE p = "EEP"            -> q.eep
                                 [] p = "initial_[Fe/H]" -> q.feh
                                 [] p = "initial_mass"   -> q.mass])
    IN  IF g.exc # "" THEN {} ELSE OnSphere(g.x)

\* getMIST that consumes a row of self.libparams on every call
GetMIST_pop(q) ==
    /\ pc = "ready"
    /\ call = NoCall
    /\ \E edge \in SUBSET EdgeRows(q) :
          call' = getMIST(q.mass, q.eep, q.feh, edge)
    /\ libparams' = Tail(libparams)
    /\ UNCHANGED <<misth5, ageweight, pc, predictions, output, gridpoints, binwidths, X>>

\* one call of getMIST on the constructed object
GetMIST(q) ==
    /\ pc = "ready"
    /\ call = NoCall
    /\ \E edge \in SUBSET EdgeRows(q) :
          call' = getMIST(q.mass, q.eep, q.feh, edge)
    /\ UNCHANGED <<misth5, ageweight, pc, index>>

\* the caller (the likelihood function) has used the returned value and drops it
Discard ==
    /\ call # NoCall
    /\ call' = NoCall
    /\ UNCHANGED <<misth5, ageweight, pc, index, prev>>

Next ==
    \/ Construct
    \/ \E q \in Queries : GetMIST(q) /\ UNCHANGED prev
    \/ Discard

Spec == Init /\ [][Next]_vars

\* The caller keeps the query and the value returned for a later comparison
Keep ==
    /\ call # NoCall
    /\ prev = NoPrev
    /\ prev' = [q |-> call.q, ret |-> call.ret, between |-> FALSE]
    /\ call' = NoCall
    /\ UNCHANGED <<misth5, ageweight, pc, index>>

\* queries of the repeated-call specification: below, inside and at the end
\* of the EEP axis, on and between the vertices of the other axes
PureQueries == [mass : {9, 12}, eep : {1, 3, 6}, feh : {-1, 0}]

\* as Next, with a kept call that notes whether another query came after it
NextPure ==
    \/ Construct
    \/ \E q \in PureQueries :
          /\ GetMIST(q)
          /\ prev' = IF prev # NoPrev /\ q # prev.q
                     THEN [prev EXCEPT !.between = TRUE] ELSE prev
    \/ Keep
    \/ Discard

SpecPure == Init /\ [][NextPure]_vars

\* As Init, for files in which some rows occur a second time (at the end of
\* the file); age weighting is off
InitDup ==
    /\ \E es \in EEPAxes, ms \in MassAxes, fs \in FehAxes :
         \E holes \in SUBSET HoleSites, dups \in SUBSET DupSites :
            /\ Cardinality(holes) <= MaxHoles
            /\ Cardinality(dups) <= MaxDups
            /\ (es \X ms \X fs) \ holes # {}
            /\ dups \subseteq (es \X ms \X fs) \ holes
            /\ misth5 = FileRows((es \X ms \X fs) \ holes) \o FileRows(dups)
    /\ ageweight = FALSE
    /\ pc = "new"
    /\ predictions = DefaultPredictions
    /\ libparams = <<>>
    /\ output = <<>>
    /\ gridpoints = <<>>
    /\ binwidths = <<>>
    /\ X = <<>>
    /\ call = NoCall
    /\ prev = NoPrev

SpecDup == InitDup /\ [][Next]_vars

-----------------------------------------------------------------------------
(* Vocabulary of the properties *)

Called == pc = "ready" /\ call # NoCall

\* the query value of the last call on axis a
QueryOn(a) ==
    CASE labels[a] = "EEP"            -> call.q.eep
      [] labels[a] = "initial_mass"   -> call.q.mass
      [] labels[a] = "initial_[Fe/H]" -> call.q.feh

AxisMin(a) == gridpoints[labels[a]][1]

AxisMax(a) == gridpoints[labels[a]][Len(gridpoints[labels[a]])]

\* the last query is the label vector of row i
QueryIsRow(i) == \A a \in 1..ndim : QueryOn(a) = libparams[i][labels[a]]

\* row i is the only row with its label vector
StoredOnce(i) ==
    \A j \in 1..Len(libparams) : libparams[j] = libparams[i] => j = i

\* the last query lies outside [min, max] on some axis
OutOfGrid == \E a \in 1..ndim : QueryOn(a) < AxisMin(a) \/ QueryOn(a) > AxisMax(a)

OutOfGridMsg == "At least one parameter outside grid."

\* every axis has at least two unique values
TwoPerAxis == \A a \in 1..ndim : Len(gridpoints[labels[a]]) >= 2

-----------------------------------------------------------------------------
(* C1: exactness at vertices.  A query with the label coordinates of any     *)
(* stored vertex v succeeds, keeps v alone with normalized weight 1, and     *)
(* returns v's stored output vector after the three query values (on a grid  *)
(* with at least two values on every axis).                                  *)
C1_ExactAtEveryVertex ==
    (Called /\ TwoPerAxis) =>
        \A i \in 1..Len(libparams) :
            (QueryIsRow(i) /\ StoredOnce(i)) =>
                /\ call.ret # None
                /\ call.inds = <<i>>
                /\ call.wghts = << <<1, 1>> >>
                /\ call.ret = <<call.q.eep, call.q.mass, call.q.feh>> \o output[i]

(* C2: out-of-range rejection.  A query is rejected by params_to_grid with   *)
(* the out-of-grid ValueError exactly when some axis value is below the      *)
(* axis minimum or above the axis maximum.                                   *)
C2_RejectedByConversionIffOutOfGrid ==
    (Called /\ TwoPerAxis) => (OutOfGrid <=> (call.exc = "ValueError" /\ call.msg = OutOfGridMsg))

-----------------------------------------------------------------------------
\* the set of elements of a sequence
Range(s) == {s[k] : k \in 1..Len(s)}

\* the raw weights of the retained neighbours of the last call
RetainedRaw ==
    Take(call.wraw, SortedSeq({k \in 1..Len(call.nbrs) : call.nbrs[k] \in Range(call.inds)}))

(* C3: failure is always distinguishable.  No exception escapes getMIST; it  *)
(* returns None or a complete vector [eep, mass, feh] + one finite value per *)
(* prediction; and it returns None whenever the query is out of grid, the    *)
(* neighbour set is empty or the raw weights do not sum above strictness.    *)
C3_FailureIsNone ==
    Called =>
        /\ ~call.escaped
        /\ \/ call.ret = None
           \/ /\ Len(call.ret) = ndim + Len(predictions)
              /\ SubSeq(call.ret, 1, ndim) = <<call.q.eep, call.q.mass, call.q.feh>>
              /\ \A c \in 1..Len(predictions) : IsFinite(call.ret[ndim + c])
        /\ (\/ OutOfGrid
            \/ call.nbrs = <<>>
            \/ RLe(RSum(call.wraw), <<strictness, 1>>)) => call.ret = None

\* an in-grid query with neighbours whose weights are all zero returned None
C3_Witness ==
    /\ Called
    /\ ~OutOfGrid
    /\ call.nbrs # <<>>
    /\ call.msg = "Something is wrong with the weights"
    /\ call.ret = None

(* C4: weight normalization.  On success the retained neighbours are exactly *)
(* the neighbours of positive raw weight, their raw weights sum to more than *)
(* 0, and their renormalized weights are positive and sum to 1.              *)
C4_WeightsNormalized ==
    (Called /\ call.ret # None) =>
        /\ Len(call.inds) > 0
        /\ Len(call.wghts) = Len(call.inds)
        /\ Range(call.inds) =
              {call.nbrs[k] : k \in {j \in 1..Len(call.nbrs) : call.wraw[j][1] > 0}}
        /\ RSum(RetainedRaw)[1] > 0
        /\ \A k \in 1..Len(call.wghts) : call.wghts[k][1] > 0 /\ call.wghts[k][2] > 0
        /\ RSum(call.wghts) = <<1, 1>>

\* a success where zero-weight neighbours were dropped and the raw sum was not 1
C4_Witness ==
    /\ Called
    /\ call.ret # None
    /\ Len(call.inds) >= 2
    /\ Len(call.nbrs) > Len(call.inds)
    /\ RSum(RetainedRaw) # <<1, 1>>

(* C5: boundedness.  On success every interpolated output lies between the   *)
(* least and the greatest value of that output over the retained neighbours. *)
C5_Bounded ==
    (Called /\ call.ret # None) =>
        \A c \in 1..Len(predictions) :
            /\ \E i \in Range(call.inds) : RLe(output[i][c], call.ret[ndim + c])
            /\ \E i \in Range(call.inds) : RLe(call.ret[ndim + c], output[i][c])

\* a success on a grid with a missing corner, strictly between two neighbours
C5_Witness ==
    /\ Called
    /\ call.ret # None
    /\ Len(call.inds) >= 2
    /\ RSum(RetainedRaw) # <<1, 1>>
    /\ \E c \in 1..Len(predictions) : \E i, j \in Range(call.inds) :
          /\ ~RLe(call.ret[ndim + c], output[i][c])
          /\ ~RLe(output[j][c], call.ret[ndim + c])

\* the construction and the last call are the 3x3x2 scenario:
\* EEP {100,200,300} x mass {0.8,1.0,1.2} x [Fe/H] {-0.5,0.0}, query (150, 0.9, -0.25)
Scenario ==
    /\ Called
    /\ {<<misth5[i].EEP, misth5[i].initial_mass, misth5[i].feh>> : i \in 1..Len(misth5)}
          = {2, 4, 6} \X {8, 10, 12} \X {-2, 0}
    /\ call.q = [mass |-> 9, eep |-> 3, feh |-> -1]

\* the rows of the cube that encloses the scenario's query
ScenarioCube ==
    {i \in 1..Len(libparams) :
        /\ libparams[i]["EEP"] \in {2, 4}
        /\ libparams[i]["initial_mass"] \in {8, 10}
        /\ libparams[i]["initial_[Fe/H]"] \in {-2, 0}}

(* C6: multilinear weight rule.  The raw weight of a neighbour at pixel v    *)
(* for the query at pixel x is the product over the axes of 1 - |x - v| if   *)
(* |x - v| < 1 on every axis and 0 otherwise; in the 3x3x2 scenario the      *)
(* retained rows are the 8 cube vertices, each of raw weight 1/8, and every  *)
(* other neighbour has weight 0.                                             *)
C6_MultilinearRule ==
    (Called /\ call.xtarg # <<>>) =>
        /\ \A k \in 1..Len(call.wraw) :
              call.wraw[k] =
                 IF \A a \in 1..ndim :
                       Abs(dxnum(call.xtarg, call.nbrs[k], a)) < call.xtarg[a][2]
                 THEN Rat(ProdSeq([a \in 1..ndim |->
                                     call.xtarg[a][2]
                                       - Abs(dxnum(call.xtarg, call.nbrs[k], a))]),
                          Denom(call.xtarg))
                 ELSE <<0, 1>>
        /\ Scenario =>
              /\ Range(call.inds) = ScenarioCube
              /\ Len(call.inds) = 8
              /\ \A k \in 1..Len(call.nbrs) :
                    call.wraw[k] = IF call.nbrs[k] \in ScenarioCube THEN <<1, 8>>
                                   ELSE <<0, 1>>

\* the scenario, where the radius query returned more than the 8 cube vertices
C6_Witness ==
    /\ Scenario
    /\ call.ret # None
    /\ Len(call.nbrs) > 8

(* C7: purity of getMIST.  Once constructed, no step changes gridpoints,     *)
(* binwidths, X, the output table, the labels (libparams) or the predictions *)
(* list, and a call with the query of a kept earlier call returns what that  *)
(* call returned, whatever was evaluated in between.                         *)
C7_Purity ==
    /\ [][pc = "ready" => index' = index]_vars
    /\ []((Called /\ prev # NoPrev /\ call.q = prev.q) => call.ret = prev.ret)

\* the query of a kept successful call was repeated after a different query
C7_Witness ==
    /\ Called
    /\ prev # NoPrev
    /\ prev.between
    /\ call.q = prev.q
    /\ call.ret # None

\* some label has fewer than two unique values among the rows of the file
DegenerateFile ==
    \/ Cardinality({misth5[i].EEP : i \in 1..Len(misth5)}) < 2
    \/ Cardinality({misth5[i].initial_mass : i \in 1..Len(misth5)}) < 2
    \/ Cardinality({misth5[i].feh : i \in 1..Len(misth5)}) < 2

(* C8: a degenerate axis is fatal at construction.  If some label has fewer  *)
(* than two unique values in the file, __init__ fails and leaves no object.  *)
C8_DegenerateAxisAbortsConstruction ==
    (pc # "new" /\ DegenerateFile) => pc = "failed"

\* the rows of the (mass m, [Fe/H] z) track, in file order
TrackRows(m, z) ==
    SortedSeq({i \in 1..Len(misth5) : misth5[i].initial_mass = m /\ misth5[i].feh = z})

\* the linear ages of the rows rows
LinearAges(rows) == [k \in 1..Len(rows) |-> Pow10(misth5[rows[k]].log_age)]

\* twice the numerical gradient of f at position k
TwiceGradientAt(f, k) ==
    IF k = 1 THEN 2 * (f[2] - f[1])
    ELSE IF k = Len(f) THEN 2 * (f[k] - f[k - 1])
    ELSE f[k + 1] - f[k - 1]

Floor(xa) == xa[1] \div xa[2]

\* the stored rows on the corners of the unit hypercube that encloses xtarg
Corners(xtarg) ==
    {i \in 1..Len(X) :
        \A a \in 1..ndim : X[i][a] \in {Floor(xtarg[a]), Floor(xtarg[a]) + 1}}

\* the stored rows whose multilinear weight at xtarg is not zero
Weighted(xtarg) ==
    {i \in 1..Len(X) : \A a \in 1..ndim : Abs(dxnum(xtarg, i, a)) < xtarg[a][2]}

Ascending(s) == \A k \in 1..(Len(s) - 1) : s[k] < s[k + 1]

InGrid == Called /\ call.xtarg # <<>> /\ ~OutOfGrid

StoredTimes(xtarg, c) ==
    Cardinality({i \in 1..Len(libparams) :
                    \A a \in 1..ndim :
                       libparams[i][labels[a]]
                          = gridpoints[labels[a]][Floor(xtarg[a]) + c[a] + 1]})

CornerOffsets == [1..ndim -> {0, 1}]

\* the grid stores exactly one row for every combination of axis values
Complete ==
    /\ Len(libparams) = ProdSeq([a \in 1..ndim |-> Len(gridpoints[labels[a]])])
    /\ \A i, j \in 1..Len(libparams) : libparams[i] = libparams[j] => i = j

\* the last query has min <= value < max on every axis
InRange ==
    /\ Called
    /\ \A a \in 1..ndim : AxisMin(a) <= QueryOn(a) /\ QueryOn(a) < AxisMax(a)

(* C11: partition of unity.  For a query with min <= value < max on every    *)
(* axis: on a grid that stores every combination of axis values exactly once *)
(* the raw weights over the neighbour set sum to 1 and renormalization       *)
(* leaves the retained weights as they are; the raw sum is below 1 only if   *)
(* some corner of the enclosing hypercube is not stored, and above 1 only if *)
(* some corner is stored more than once.                                     *)
C11_PartitionOfUnity ==
    InRange =>
        /\ call.xtarg # <<>>
        /\ Complete => /\ RSum(call.wraw) = <<1, 1>>
                       /\ call.ret # None
                       /\ call.wghts = RetainedRaw
        /\ ~RLe(<<1, 1>>, RSum(call.wraw)) =>
              \E c \in CornerOffsets : StoredTimes(call.xtarg, c) = 0
        /\ ~RLe(RSum(call.wraw), <<1, 1>>) =>
              \E c \in CornerOffsets : StoredTimes(call.xtarg, c) > 1

\* a query strictly inside a cell of a complete grid: 8 corners, raw sum 1,
\* and zero-weight neighbours beside them
C11_Witness ==
    /\ InRange
    /\ Complete
    /\ Len(call.inds) = 8
    /\ Len(call.nbrs) > 8
    /\ RSum(call.wraw) = <<1, 1>>

====
